---- MODULE Spec2Model ----
(***************************************************************************)
(* Model of the gaze tracking session of src/gaze_tracking: the session    *)
(* (GazeTracking), the two eyes it rebuilds on every refresh (Eye), the    *)
(* pupil of each eye (Pupil) and the calibration shared across frames      *)
(* (Calibration).                                                          *)
(*                                                                         *)
(* Python values are encoded as follows.  An optional value (None or a     *)
(* value) is a sequence of length 0 or 1.  A float is an exact fraction    *)
(* [num, den] with den >= 0; a zero denominator never escapes a division,  *)
(* which raises ZeroDivisionError as in Python.  The result of a query is  *)
(* [exc, val]: the exception that escaped it ("none" if it returned) and   *)
(* its optional value.                                                     *)
(*                                                                         *)
(* The pictures and the landmark predictor are outside the repository; a   *)
(* frame is one row of the table Frames, which holds what dlib and OpenCV  *)
(* deliver for it: the number of faces, the six landmark points of each    *)
(* eye, the grey levels of the filtered and eroded eye crop, and the       *)
(* contours of the binarized crop.                                         *)
(*                                                                         *)
(* Spec is the session: one refresh per frame.  SpecCalls is one direct    *)
(* call of Calibration.find_best_threshold or of the Pupil constructor on  *)
(* a picture that carries its own grey levels and contours.                *)
(***************************************************************************)
EXTENDS Integers, Sequences, FiniteSets, TLC

\* ----------------------------------------------------------------------
\* Bounds of the model
\* ----------------------------------------------------------------------
\* while the calibration is running, the picture shown to the session
\* changes at most this many times
MaxSceneChanges == 1
\* a sample sequence is not followed beyond this length
MaxSamples == 22
\* a picture handed directly to Calibration.find_best_threshold has at most
\* this many grey levels below white
MaxGreyLevels == 2
\* a picture handed directly to Pupil has at most this many contours
MaxContours == 3

\* Calibration.nb_frames
nb_frames == 20

\* ----------------------------------------------------------------------
\* Python values
\* ----------------------------------------------------------------------
None == << >>
Some(v) == << v >>
IsNone(o) == Len(o) = 0
Get(o) == o[1]

Abs(n) == IF n < 0 THEN -n ELSE n

\* int(n / d) for d # 0: truncation towards zero
IntTrunc(n, d) ==
    IF (n >= 0) = (d > 0) THEN Abs(n) \div Abs(d) ELSE -(Abs(n) \div Abs(d))

Rat(n, d) == IF d < 0 THEN [num |-> -n, den |-> -d] ELSE [num |-> n, den |-> d]
RInt(n) == Rat(n, 1)
RIsZero(a) == a.num = 0
RAdd(a, b) == Rat(a.num * b.den + b.num * a.den, a.den * b.den)
RSub(a, b) == Rat(a.num * b.den - b.num * a.den, a.den * b.den)
RMul(a, b) == Rat(a.num * b.num, a.den * b.den)
\* a / b for b # 0
RDiv(a, b) == Rat(a.num * b.den, a.den * b.num)
RLe(a, b) == a.num * b.den <= b.num * a.den
RLt(a, b) == a.num * b.den < b.num * a.den
REq(a, b) == a.num * b.den = b.num * a.den

Ret(v) == [exc |-> "none", val |-> Some(v)]
RetNone == [exc |-> "none", val |-> None]
Raise(e) == [exc |-> e, val |-> None]

\* v, evaluated once, as the argument of F
Bind(v, F(_)) == CHOOSE y \in { F(x) : x \in {v} } : TRUE

\* sum(s): the sum of the first n elements of s, for n = Len(s)
RECURSIVE SumUpTo(_, _)
SumUpTo(s, n) == IF n = 0 THEN 0 ELSE s[n] + SumUpTo(s, n - 1)

SumSeq(s) == SumUpTo(s, Len(s))

MinOf(S) == CHOOSE m \in S : \A n \in S : m <= n
MaxOf(S) == CHOOSE m \in S : \A n \in S : m >= n

\* ----------------------------------------------------------------------
\* The frames (what the collaborators deliver for each picture)
\* ----------------------------------------------------------------------
\* the six landmarks of an eye whose corners lie on the line y, from x0 to
\* x0 + w, with the upper lid up above and the lower lid dn below that line
Lids(x0, y, w, up, dn) ==
    << <<x0, y>>, <<x0 + 5, y - up>>, <<x0 + w - 5, y - up>>,
       <<x0 + w, y>>, <<x0 + w - 5, y + dn>>, <<x0 + 5, y + dn>> >>

\* a contour of the binarized crop: it exists for thresholds lo..hi
Contour(lo, hi, area, m00, m10, m01) ==
    [lo |-> lo, hi |-> hi, area |-> area, m00 |-> m00, m10 |-> m10, m01 |-> m01]

\* the border of the white surround, the iris, a speck of noise
OuterContour == Contour(0, 255, 300, 300, 4500, 2400)
Speck == Contour(0, 255, 2, 2, 6, 6)

\* dark: the grey levels <<level, pixels>> of the crop without its 5 pixel
\* border, after filtering and erosion; every other pixel is white (255)
EyeData(pts, dark, contours) == [pts |-> pts, dark |-> dark, contours |-> contours]

\* an open eye, 20 wide and 6 high, looking straight ahead
OpenEye(x0) ==
    EyeData(Lids(x0, 20, 20, 3, 3),
            << <<30, 40>>, <<50, 20>>, <<70, 30>> >>,
            << Speck, Contour(30, 255, 50, 50, 760, 410), OuterContour >>)

\* a darker picture of a nearly closed eye, 50 wide and 12 high, whose
\* pupil sits exactly at the center of the crop (30, 11)
CenteredEye(x0) ==
    EyeData(Lids(x0, 30, 50, 6, 6),
            << <<40, 290>>, <<80, 100>> >>,
            << Contour(25, 255, 80, 80, 2400, 880), OuterContour >>)

\* lids crossing each other: the middle of the upper lid is the middle of
\* the lower lid, the aperture has height zero
CrossedEye(x0) ==
    EyeData(<< <<x0, 20>>, <<x0 + 5, 17>>, <<x0 + 15, 23>>,
               <<x0 + 20, 20>>, <<x0 + 15, 17>>, <<x0 + 5, 23>> >>,
            << <<30, 40>>, <<50, 20>>, <<70, 30>> >>,
            << Contour(30, 255, 50, 50, 650, 400), OuterContour >>)

\* an open eye looking to the side: the pupil in column 13 of a crop whose
\* landmarks span 20 columns
SideEye(x0) ==
    EyeData(Lids(x0, 20, 20, 3, 3),
            << <<30, 40>>, <<50, 20>>, <<70, 30>> >>,
            << Speck, Contour(30, 255, 50, 50, 650, 400), OuterContour >>)

\* all six landmarks on one line: the crop is 10 pixels high
FlatEye(x0) ==
    EyeData(Lids(x0, 20, 20, 0, 0), << >>,
            << Contour(0, 255, 20, 20, 300, 100), OuterContour >>)

\* an eye in which no iris is found: a single contour
BlankEye(x0) ==
    EyeData(Lids(x0, 20, 20, 3, 3),
            << <<45, 60>> >>,
            << OuterContour >>)

\* an eye whose second largest contour encloses no area
EmptyContourEye(x0) ==
    EyeData(Lids(x0, 20, 20, 3, 3),
            << <<30, 40>>, <<50, 20>>, <<70, 30>> >>,
            << Contour(0, 255, 0, 0, 0, 0), OuterContour >>)

Face(n, l, r) == [faces |-> n, eyes |-> << l, r >>]

Frames ==
    << Face(0, OpenEye(10), OpenEye(60)),
       Face(1, OpenEye(10), OpenEye(60)),
       Face(2, CenteredEye(10), CenteredEye(100)),
       Face(1, CrossedEye(10), SideEye(60)),
       Face(1, OpenEye(10), FlatEye(60)),
       Face(1, FlatEye(10), BlankEye(60)),
       Face(1, EmptyContourEye(10), OpenEye(60)) >>

FrameIds == 1..Len(Frames)

\* a picture that is no crop of a frame of the table (src = 0): it carries
\* its own grey levels and contours
StandAlone(height, width, dark, contours) ==
    [src |-> 0, side |-> 0, height |-> height, width |-> width,
     dark |-> dark, contours |-> contours]

\* what OpenCV finds in an eye crop
Picture(eye_frame) ==
    IF eye_frame.src = 0
    THEN [dark |-> eye_frame.dark, contours |-> eye_frame.contours]
    ELSE Frames[eye_frame.src].eyes[eye_frame.side + 1]

\* ----------------------------------------------------------------------
\* Pupil (pupil.py)
\* ----------------------------------------------------------------------
\* the binarized crop: which crop, binarized at which threshold
image_processing(eye_frame, threshold) ==
    [of |-> eye_frame, threshold |-> threshold]

\* cv2.findContours on a binarized crop
findContours(iris_frame) ==
    LET all == Picture(iris_frame.of).contours
    IN SelectSeq(all, LAMBDA c : c.lo <= iris_frame.threshold
                                  /\ iris_frame.threshold <= c.hi)

\* sorted(contours, key=cv2.contourArea): stable, ascending
RECURSIVE InsertByArea(_, _, _)
InsertByArea(c, s, i) ==
    IF i > Len(s) THEN Append(s, c)
    ELSE IF c.area < s[i].area
    THEN SubSeq(s, 1, i - 1) \o << c >> \o SubSeq(s, i, Len(s))
    ELSE InsertByArea(c, s, i + 1)

RECURSIVE SortByArea(_, _)
SortByArea(s, n) ==
    IF n = 0 THEN << >>
    ELSE Bind(SortByArea(s, n - 1), LAMBDA sorted : InsertByArea(s[n], sorted, 1))

\* detect_iris that takes the largest contour, contours[-1]
detect_iris_Largest(eye_frame, threshold) ==
    LET iris_frame == image_processing(eye_frame, threshold)
        undetected == [iris_frame |-> iris_frame, threshold |-> threshold,
                       x |-> None, y |-> None]
    IN Bind(findContours(iris_frame), LAMBDA found :
       Bind(SortByArea(found, Len(found)), LAMBDA contours :
           IF Len(contours) < 2 THEN undetected
           ELSE LET moments == contours[Len(contours)]
                IN IF moments.m00 = 0 THEN undetected
                   ELSE [iris_frame |-> iris_frame, threshold |-> threshold,
                         x |-> Some(IntTrunc(moments.m10, moments.m00)),
                         y |-> Some(IntTrunc(moments.m01, moments.m00))]))

\* contours[-2] of the contours sorted by area; an IndexError or a
\* ZeroDivisionError leaves x and y as the constructor set them
detect_iris(eye_frame, threshold) ==
    LET iris_frame == image_processing(eye_frame, threshold)
        undetected == [iris_frame |-> iris_frame, threshold |-> threshold,
                       x |-> None, y |-> None]
    IN Bind(findContours(iris_frame), LAMBDA found :
       Bind(SortByArea(found, Len(found)), LAMBDA contours :
           IF Len(contours) < 2 THEN undetected
           ELSE LET moments == contours[Len(contours) - 1]
                IN IF moments.m00 = 0 THEN undetected
                   ELSE [iris_frame |-> iris_frame, threshold |-> threshold,
                         x |-> Some(IntTrunc(moments.m10, moments.m00)),
                         y |-> Some(IntTrunc(moments.m01, moments.m00))]))

Pupil(eye_frame, threshold) == detect_iris(eye_frame, threshold)

\* ----------------------------------------------------------------------
\* Calibration (calibration.py)
\* ----------------------------------------------------------------------
\* a calibration is [thresholds_left, thresholds_right]
NewCalibration == [thresholds_left |-> << >>, thresholds_right |-> << >>]

is_complete(cal) ==
    Len(cal.thresholds_left) >= nb_frames /\ Len(cal.thresholds_right) >= nb_frames

\* threshold that rounds the mean up
threshold_RoundUp(cal, side) ==
    LET ts == IF side = 0 THEN cal.thresholds_left ELSE cal.thresholds_right
    IN IF side \notin {0, 1} THEN RetNone
       ELSE IF Len(ts) = 0 THEN Raise("ZeroDivisionError")
       ELSE Ret((SumSeq(ts) + Len(ts) - 1) \div Len(ts))

\* int(sum(thresholds) / len(thresholds))
threshold(cal, side) ==
    LET ts == IF side = 0 THEN cal.thresholds_left ELSE cal.thresholds_right
    IN IF side \notin {0, 1} THEN RetNone
       ELSE IF Len(ts) = 0 THEN Raise("ZeroDivisionError")
       ELSE Ret(IntTrunc(SumSeq(ts), Len(ts)))

\* the size of frame[5:-5, 5:-5]
Trimmed(n) == IF n > 10 THEN n - 10 ELSE 0

\* cv2.countNonZero of the trimmed binarized crop: the pixels above the
\* threshold
RECURSIVE BlacksUpTo(_, _)
BlacksUpTo(dark, t) ==
    IF dark = << >> THEN 0
    ELSE (IF dark[1][1] <= t THEN dark[1][2] ELSE 0) + BlacksUpTo(Tail(dark), t)

iris_size(frame) ==
    LET height == Trimmed(frame.of.height)
        width == Trimmed(frame.of.width)
        nb_pixels == height * width
        dark == Picture(frame.of).dark
        nb_blacks == BlacksUpTo(dark, frame.threshold)
    IN IF nb_pixels = 0 THEN Raise("ZeroDivisionError")
       ELSE Ret(Rat(nb_blacks, nb_pixels))

\* range(5, 100, 5)
Candidates == { 5 * i : i \in 1..19 }

average_iris_size == Rat(48, 100)

\* abs(p[1] - average_iris_size)
Deviation(size) ==
    LET d == RSub(size, average_iris_size)
    IN Rat(Abs(d.num), d.den)

\* trials holds the iris size for every candidate threshold; min keeps the
\* first, that is the smallest, threshold of the least deviation
find_best_threshold(eye_frame) ==
    Bind({ << t, iris_size(image_processing(eye_frame, t)) >> : t \in Candidates },
        LAMBDA trials :
            IF \E p \in trials : p[2].exc # "none"
            THEN Raise("ZeroDivisionError")
            ELSE Bind({ << p[1], Deviation(Get(p[2].val)) >> : p \in trials },
                     LAMBDA deviations :
                         Ret(MinOf({ p[1] : p \in
                                 { q \in deviations :
                                      \A u \in deviations : RLe(q[2], u[2]) } }))))

\* Calibration.evaluate: the calibration after the call
evaluate(cal, eye_frame, side) ==
    Bind(find_best_threshold(eye_frame), LAMBDA found :
        IF found.exc # "none" THEN [exc |-> found.exc, cal |-> cal]
        ELSE IF side = 0
             THEN [exc |-> "none",
                   cal |-> [cal EXCEPT !.thresholds_left = Append(@, Get(found.val))]]
        ELSE IF side = 1
             THEN [exc |-> "none",
                   cal |-> [cal EXCEPT !.thresholds_right = Append(@, Get(found.val))]]
        ELSE [exc |-> "none", cal |-> cal])

\* ----------------------------------------------------------------------
\* Eye (eye.py)
\* ----------------------------------------------------------------------
LEFT_EYE_POINTS == << 36, 37, 38, 39, 40, 41 >>
RIGHT_EYE_POINTS == << 42, 43, 44, 45, 46, 47 >>

\* landmarks.part(point) of the first face of a frame
part(f, point) ==
    IF point <= 41 THEN Frames[f].eyes[1].pts[point - 35]
    ELSE Frames[f].eyes[2].pts[point - 41]

_middle_point(p1, p2) ==
    << IntTrunc(p1[1] + p2[1], 2), IntTrunc(p1[2] + p2[2], 2) >>

\* math.hypot, where the result is a whole number
hypot(dx, dy) == CHOOSE r \in 0..(Abs(dx) + Abs(dy)) : r * r = dx * dx + dy * dy

_blinking_ratio(f, points) ==
    LET left == part(f, points[1])
        right == part(f, points[4])
        top == _middle_point(part(f, points[2]), part(f, points[3]))
        bottom == _middle_point(part(f, points[6]), part(f, points[5]))
        eye_width == hypot(left[1] - right[1], left[2] - right[2])
        eye_height == hypot(top[1] - bottom[1], top[2] - bottom[2])
    IN IF eye_height = 0 THEN None ELSE Some(Rat(eye_width, eye_height))

margin == 5

\* the crop, its origin and its center
_isolate(f, side, points) ==
    LET region == [i \in 1..6 |-> part(f, points[i])]
        min_x == MinOf({ region[i][1] : i \in 1..6 }) - margin
        max_x == MaxOf({ region[i][1] : i \in 1..6 }) + margin
        min_y == MinOf({ region[i][2] : i \in 1..6 }) - margin
        max_y == MaxOf({ region[i][2] : i \in 1..6 }) + margin
        height == max_y - min_y
        width == max_x - min_x
    IN [landmark_points |-> region,
        frame |-> [src |-> f, side |-> side, height |-> height, width |-> width],
        origin |-> << min_x, min_y >>,
        center |-> << Rat(width, 2), Rat(height, 2) >>]

\* needs_sample without the test: every eye records a sample
needs_sample_Always(cal) == TRUE

\* needs_sample with the test inverted
needs_sample_Inverted(cal) == is_complete(cal)

\* if not calibration.is_complete(): whether building an eye records a sample
needs_sample(cal) == ~ is_complete(cal)

\* Eye(original_frame, landmarks, side, calibration): the exception that
\* escaped the constructor, the eye it built and the calibration afterwards.
\* side is 0 or 1, the two values GazeTracking._analyze passes; the crops of
\* Frames lie inside the picture, so that slicing does not clip them
Eye_analyze(f, side, cal) ==
    LET points == IF side = 0 THEN LEFT_EYE_POINTS ELSE RIGHT_EYE_POINTS
    IN Bind(_blinking_ratio(f, points), LAMBDA blinking :
       Bind(_isolate(f, side, points), LAMBDA iso :
       Bind(IF needs_sample(cal)
           THEN evaluate(cal, iso.frame, side)
           ELSE [exc |-> "none", cal |-> cal], LAMBDA evaluated :
           IF evaluated.exc # "none"
           THEN [exc |-> evaluated.exc, at |-> "Calibration.iris_size",
                 eye |-> None, cal |-> evaluated.cal]
           ELSE Bind(threshold(evaluated.cal, side), LAMBDA thr :
                IF thr.exc # "none"
                THEN [exc |-> thr.exc, at |-> "Calibration.threshold",
                      eye |-> None, cal |-> evaluated.cal]
                ELSE [exc |-> "none", at |-> "",
                      eye |-> Some([frame |-> iso.frame,
                                    origin |-> iso.origin,
                                    center |-> iso.center,
                                    landmark_points |-> iso.landmark_points,
                                    blinking |-> blinking,
                                    pupil |-> Pupil(iso.frame, Get(thr.val))]),
                      cal |-> evaluated.cal]))))

\* ----------------------------------------------------------------------
\* GazeTracking (gaze_tracking.py)
\* ----------------------------------------------------------------------
VARIABLES
    frame,        \* GazeTracking.frame: None or the frame of the last refresh
    eye_left,     \* GazeTracking.eye_left: None or an eye
    eye_right,    \* GazeTracking.eye_right: None or an eye
    calibration,  \* GazeTracking.calibration
    ended,        \* how the last call of refresh ended: [exc, at]
    changes,      \* changes of the picture during the calibration so far
    probe,        \* None or the last direct call: [op, eye_frame, threshold]
    answer        \* None or what that call returned

vars == << frame, eye_left, eye_right, calibration, ended, changes, probe, answer >>

\* NoFace that leaves the eyes of the earlier frame in place
NoFace_KeepEyes(el, er, cal) ==
    [exc |-> "none", at |-> "", eye_left |-> el, eye_right |-> er, cal |-> cal]

\* NoFace that forgets to clear the right eye
NoFace_KeepRight(el, er, cal) ==
    [exc |-> "none", at |-> "", eye_left |-> None, eye_right |-> er, cal |-> cal]

\* what the except clause of GazeTracking._analyze does
NoFace(el, er, cal) ==
    [exc |-> "none", at |-> "", eye_left |-> None, eye_right |-> None, cal |-> cal]

\* GazeTracking._analyze on frame f, from the eyes el, er and calibration cal.
\* faces[0] raises IndexError when there is no face; no IndexError escapes
\* the construction of an eye, and any other exception leaves _analyze
GazeTracking_analyze(f, el, er, cal) ==
    IF Frames[f].faces = 0 THEN NoFace(el, er, cal)
    ELSE Bind(Eye_analyze(f, 0, cal), LAMBDA left :
         IF left.exc # "none"
         THEN [exc |-> left.exc, at |-> left.at,
               eye_left |-> el, eye_right |-> er, cal |-> left.cal]
         ELSE Bind(Eye_analyze(f, 1, left.cal), LAMBDA right :
              IF right.exc # "none"
              THEN [exc |-> right.exc, at |-> right.at,
                    eye_left |-> left.eye, eye_right |-> er, cal |-> right.cal]
              ELSE [exc |-> "none", at |-> "",
                    eye_left |-> left.eye, eye_right |-> right.eye,
                    cal |-> right.cal]))

Init ==
    /\ frame = None
    /\ eye_left = None
    /\ eye_right = None
    /\ calibration = NewCalibration
    /\ ended = [exc |-> "none", at |-> ""]
    /\ changes = 0
    /\ probe = None
    /\ answer = None

refresh(f) ==
    LET changed == /\ ~ is_complete(calibration)
                   /\ ~ IsNone(frame)
                   /\ Get(frame) # f
    IN /\ changed => changes < MaxSceneChanges
       /\ \E r \in { GazeTracking_analyze(f, eye_left, eye_right, calibration) } :
             /\ Len(r.cal.thresholds_left) <= MaxSamples
             /\ frame' = Some(f)
             /\ eye_left' = r.eye_left
             /\ eye_right' = r.eye_right
             /\ calibration' = r.cal
             /\ ended' = [exc |-> r.exc, at |-> r.at]
             /\ changes' = IF changed THEN changes + 1 ELSE changes
             /\ UNCHANGED << probe, answer >>

Next == \E f \in FrameIds : refresh(f)

Spec == Init /\ [][Next]_vars

\* ----------------------------------------------------------------------
\* Calibration.find_best_threshold and Pupil, called directly on a picture
\* ----------------------------------------------------------------------
\* the grey levels a picture is made of, and how many of the pixels inside
\* its 5 pixel border have one grey level
GreyLevels == {5, 20, 50, 52, 95, 120}
PixelCounts == {0, 4, 44, 46, 48, 52}

\* height and width of a picture: 100 pixels inside the border, or none
PictureSizes == { <<20, 20>>, <<15, 30>> }
FlatSizes == { <<10, 30>>, <<30, 8>> }

\* the pictures of at most n grey levels, darkest first
RECURSIVE Histograms(_)
Histograms(n) ==
    IF n = 0 THEN { << >> }
    ELSE Bind(Histograms(n - 1), LAMBDA shorter :
         shorter \cup
         { h \in { Append(g, << l, c >>) :
                     g \in { k \in shorter : Len(k) = n - 1 },
                     l \in GreyLevels, c \in PixelCounts } :
             /\ Len(h) > 1 => h[Len(h) - 1][1] < h[Len(h)][1]
             /\ SumSeq([ i \in 1..Len(h) |-> h[i][2] ]) <= 100 })

\* the contours a picture is made of: one that encloses nothing, two of
\* the same area (one of them only seen from threshold 40 on), and two
\* whose centroid is no whole number
ContourPool ==
    { Contour(0, 255, 0, 0, 0, 0),
      Contour(0, 255, 4, 4, 10, 7),
      Contour(0, 255, 9, 9, 30, 40),
      Contour(40, 255, 9, 9, 50, 22),
      Contour(0, 255, 50, 50, 760, 410) }

RECURSIVE ContourLists(_)
ContourLists(n) ==
    IF n = 0 THEN { << >> }
    ELSE Bind(ContourLists(n - 1), LAMBDA shorter :
         shorter \cup { Append(g, c) : g \in { k \in shorter : Len(k) = n - 1 },
                                       c \in ContourPool })

PupilThresholds == {30, 50}

\* the direct calls: [op, eye_frame, threshold]
find_best_threshold_Calls ==
    { [op |-> "find_best_threshold", threshold |-> 0,
       eye_frame |-> StandAlone(size[1], size[2], dark, << >>)] :
         size \in PictureSizes, dark \in Histograms(MaxGreyLevels) }
    \cup
    { [op |-> "find_best_threshold", threshold |-> 0,
       eye_frame |-> StandAlone(size[1], size[2], << >>, << >>)] :
         size \in FlatSizes }

Pupil_Calls ==
    { [op |-> "Pupil", threshold |-> t,
       eye_frame |-> StandAlone(20, 20, << >>, contours)] :
         t \in PupilThresholds, contours \in ContourLists(MaxContours) }

\* a picture and a call are chosen, nothing is called yet
InitCalls ==
    /\ frame = None
    /\ eye_left = None
    /\ eye_right = None
    /\ calibration = NewCalibration
    /\ ended = [exc |-> "none", at |-> ""]
    /\ changes = 0
    /\ probe \in { Some(c) : c \in find_best_threshold_Calls \cup Pupil_Calls }
    /\ answer = None

Call_find_best_threshold ==
    /\ IsNone(answer)
    /\ Get(probe).op = "find_best_threshold"
    /\ answer' = Some(find_best_threshold(Get(probe).eye_frame))
    /\ UNCHANGED << frame, eye_left, eye_right, calibration, ended, changes, probe >>

Call_Pupil ==
    /\ IsNone(answer)
    /\ Get(probe).op = "Pupil"
    /\ answer' = Some(Pupil(Get(probe).eye_frame, Get(probe).threshold))
    /\ UNCHANGED << frame, eye_left, eye_right, calibration, ended, changes, probe >>

NextCalls == Call_find_best_threshold \/ Call_Pupil

SpecCalls == InitCalls /\ [][NextCalls]_vars

\* ----------------------------------------------------------------------
\* The queries of GazeTracking, on the eyes el and er
\* ----------------------------------------------------------------------
pupils_located(el, er) ==
    /\ ~ IsNone(el)
    /\ ~ IsNone(Get(el).pupil.x)
    /\ ~ IsNone(Get(el).pupil.y)
    /\ ~ IsNone(er)
    /\ ~ IsNone(Get(er).pupil.x)
    /\ ~ IsNone(Get(er).pupil.y)

\* pupil_left_coords that looks at the left eye only
pupil_left_coords_OwnEye(el, er) ==
    IF ~ IsNone(el) /\ ~ IsNone(Get(el).pupil.x) /\ ~ IsNone(Get(el).pupil.y)
    THEN Ret(<< Get(el).origin[1] + Get(Get(el).pupil.x),
                Get(el).origin[2] + Get(Get(el).pupil.y) >>)
    ELSE RetNone

pupil_left_coords(el, er) ==
    IF pupils_located(el, er)
    THEN Ret(<< Get(el).origin[1] + Get(Get(el).pupil.x),
                Get(el).origin[2] + Get(Get(el).pupil.y) >>)
    ELSE RetNone

\* pupil_right_coords that adds the origin of the left eye
pupil_right_coords_LeftOrigin(el, er) ==
    IF pupils_located(el, er)
    THEN Ret(<< Get(el).origin[1] + Get(Get(er).pupil.x),
                Get(el).origin[2] + Get(Get(er).pupil.y) >>)
    ELSE RetNone

pupil_right_coords(el, er) ==
    IF pupils_located(el, er)
    THEN Ret(<< Get(er).origin[1] + Get(Get(er).pupil.x),
                Get(er).origin[2] + Get(Get(er).pupil.y) >>)
    ELSE RetNone

\* (pupil_left + pupil_right) / 2, pupil = p / (c * 2 - 10)
GazeRatio(pl, cl, pr, cr) ==
    LET dl == RSub(RMul(cl, RInt(2)), RInt(10))
        dr == RSub(RMul(cr, RInt(2)), RInt(10))
    IN IF RIsZero(dl) \/ RIsZero(dr) THEN Raise("ZeroDivisionError")
       ELSE Ret(RDiv(RAdd(RDiv(RInt(pl), dl), RDiv(RInt(pr), dr)), RInt(2)))

horizontal_ratio(el, er) ==
    IF pupils_located(el, er)
    THEN GazeRatio(Get(Get(el).pupil.x), Get(el).center[1],
                   Get(Get(er).pupil.x), Get(er).center[1])
    ELSE RetNone

vertical_ratio(el, er) ==
    IF pupils_located(el, er)
    THEN GazeRatio(Get(Get(el).pupil.y), Get(el).center[2],
                   Get(Get(er).pupil.y), Get(er).center[2])
    ELSE RetNone

\* the bound of is_right and of is_left
RightBound == Rat(65, 100)
LeftBound == Rat(65, 100)

is_right(el, er) ==
    IF pupils_located(el, er)
    THEN LET h == horizontal_ratio(el, er)
         IN IF h.exc # "none" THEN Raise(h.exc)
            ELSE Ret(RLe(Get(h.val), RightBound))
    ELSE RetNone

is_left(el, er) ==
    IF pupils_located(el, er)
    THEN LET h == horizontal_ratio(el, er)
         IN IF h.exc # "none" THEN Raise(h.exc)
            ELSE Ret(RLe(LeftBound, Get(h.val)))
    ELSE RetNone

is_center(el, er) ==
    IF pupils_located(el, er)
    THEN LET r == is_right(el, er)
             l == is_left(el, er)
         IN IF r.exc # "none" THEN Raise(r.exc)
            ELSE IF r.val = Some(TRUE) THEN Ret(FALSE)
            ELSE IF l.exc # "none" THEN Raise(l.exc)
            ELSE Ret(l.val # Some(TRUE))
    ELSE RetNone

BlinkBound == Rat(38, 10)

is_blinking(el, er) ==
    IF pupils_located(el, er)
    THEN IF IsNone(Get(el).blinking) \/ IsNone(Get(er).blinking)
         THEN Raise("TypeError")
         ELSE LET blinking_ratio ==
                      RDiv(RAdd(Get(Get(el).blinking), Get(Get(er).blinking)), RInt(2))
              IN Ret(RLt(BlinkBound, blinking_ratio))
    ELSE RetNone

\* every gaze query, on the eyes of the session
Queries ==
    [pupils_located |-> Ret(pupils_located(eye_left, eye_right)),
     pupil_left_coords |-> pupil_left_coords(eye_left, eye_right),
     pupil_right_coords |-> pupil_right_coords(eye_left, eye_right),
     horizontal_ratio |-> horizontal_ratio(eye_left, eye_right),
     vertical_ratio |-> vertical_ratio(eye_left, eye_right),
     is_right |-> is_right(eye_left, eye_right),
     is_left |-> is_left(eye_left, eye_right),
     is_center |-> is_center(eye_left, eye_right),
     is_blinking |-> is_blinking(eye_left, eye_right)]

\* ----------------------------------------------------------------------
\* Properties
\* ----------------------------------------------------------------------
Present(e) == ~ IsNone(e)
Located == pupils_located(eye_left, eye_right)
Returned == ended.exc = "none"
NoFaceFrame == Present(frame) /\ Frames[Get(frame)].faces = 0
SamplesOf(side) ==
    IF side = 0 THEN calibration.thresholds_left ELSE calibration.thresholds_right
EyeOf(side) == IF side = 0 THEN eye_left ELSE eye_right

\* C1: a sample sequence never holds more than nb_frames (20) samples: a
\* sample is never recorded for a side that already holds 20.
C1_SamplesNeverExceedTarget ==
    /\ Len(calibration.thresholds_left) <= nb_frames
    /\ Len(calibration.thresholds_right) <= nb_frames

\* C2: is_complete() is false until both sides hold 20 samples and true once
\* they do; and once it is true, no refresh changes the threshold of either
\* side.
C2_Complete ==
    /\ (Len(calibration.thresholds_left) < nb_frames
        \/ Len(calibration.thresholds_right) < nb_frames) => ~ is_complete(calibration)
    /\ (Len(calibration.thresholds_left) = nb_frames
        /\ Len(calibration.thresholds_right) = nb_frames) => is_complete(calibration)

C2_Frozen ==
    is_complete(calibration) =>
        /\ is_complete(calibration')
        /\ \A side \in {0, 1} : threshold(calibration', side) = threshold(calibration, side)

C3_NoFaceAllAbsent ==
    NoFaceFrame =>
        /\ Returned
        /\ IsNone(eye_left)
        /\ IsNone(eye_right)
        /\ Queries.pupils_located = Ret(FALSE)
        /\ \A q \in DOMAIN Queries \ {"pupils_located"} : Queries[q] = RetNone

\* a frame without a face, after frames in which both eyes were built
C3_Witness ==
    /\ NoFaceFrame
    /\ Len(calibration.thresholds_left) >= 1
    /\ Len(calibration.thresholds_right) >= 1

\* C4: pupils_located is true iff both eyes are present and both pupils have
\* an x and a y; whenever it is false, both pupil coordinates and both
\* ratios are None.
C4_PupilsLocated ==
    /\ Located <=> \A side \in {0, 1} :
                      /\ Present(EyeOf(side))
                      /\ Present(Get(EyeOf(side)).pupil.x)
                      /\ Present(Get(EyeOf(side)).pupil.y)
    /\ ~ Located =>
          /\ Queries.pupil_left_coords = RetNone
          /\ Queries.pupil_right_coords = RetNone
          /\ Queries.horizontal_ratio = RetNone
          /\ Queries.vertical_ratio = RetNone

\* both eyes present, one pupil found and the other not
C4_Witness ==
    /\ Returned
    /\ Present(eye_left)
    /\ Present(eye_right)
    /\ IsNone(Get(eye_left).pupil.x)
    /\ Present(Get(eye_right).pupil.x)

\* the pupil of the eye lies exactly at the center of its crop
AtCenter(e) ==
    /\ Present(Get(e).pupil.x)
    /\ REq(RInt(Get(Get(e).pupil.x)), Get(e).center[1])
    /\ REq(RInt(Get(Get(e).pupil.y)), Get(e).center[2])

\* C5: when both pupils are located exactly at the center of their eye
\* frames, is_center() returns True.
C5_CenterIsCenter ==
    (Located /\ AtCenter(eye_left) /\ AtCenter(eye_right))
        => Queries.is_center = Ret(TRUE)

\* C6: when the blink ratio of one eye is undefined while both pupils are
\* located, is_blinking() does not raise.
C6_BlinkingTolerant ==
    (Located /\ (IsNone(Get(eye_left).blinking) \/ IsNone(Get(eye_right).blinking)))
        => Queries.is_blinking.exc = "none"

\* C7: the threshold an eye was built with is the truncated mean of the
\* samples of its own side: threshold * count <= sum < (threshold + 1) * count.
C7_ThresholdIsTruncatedMean ==
    \A side \in {0, 1} :
        Present(EyeOf(side)) =>
            LET t == Get(EyeOf(side)).pupil.threshold
                n == Len(SamplesOf(side))
                total == SumSeq(SamplesOf(side))
            IN /\ n > 0
               /\ t * n <= total
               /\ total < (t + 1) * n

\* the mean of the left samples is not a whole number, and the two sides
\* hold different samples
C7_Witness ==
    /\ Present(eye_left)
    /\ Present(eye_right)
    /\ SumSeq(calibration.thresholds_left) % Len(calibration.thresholds_left) # 0
    /\ Get(eye_left).pupil.threshold # Get(eye_right).pupil.threshold

\* the corner of the crop of eye side of frame f: 5 pixels above and to the
\* left of the landmarks
CornerOf(f, side) ==
    LET pts == Frames[f].eyes[side + 1].pts
    IN << MinOf({ pts[i][1] : i \in 1..6 }) - 5, MinOf({ pts[i][2] : i \in 1..6 }) - 5 >>

C9_BothOrNeither ==
    (Returned /\ Present(frame)) =>
        \/ IsNone(eye_left) /\ IsNone(eye_right)
        \/ /\ Present(eye_left)
           /\ Present(eye_right)
           /\ Get(eye_left).frame.src = Get(frame)
           /\ Get(eye_right).frame.src = Get(frame)
           /\ Get(eye_left).frame.side = 0
           /\ Get(eye_right).frame.side = 1

\* a refresh returned with both eyes, after an earlier refresh had raised
\* while building the right eye
C9_Witness ==
    /\ Returned
    /\ Present(eye_left)
    /\ Present(eye_right)
    /\ Len(calibration.thresholds_left) > Len(calibration.thresholds_right)

\* C10: no refresh raises in Calibration.threshold: the threshold of a side
\* is only read when that side holds a sample.
C10_ThresholdNeverUnderflows ==
    /\ ended.at # "Calibration.threshold"
    /\ \A side \in {0, 1} : Present(EyeOf(side)) => Len(SamplesOf(side)) >= 1

\* the threshold of each side has been read with a single sample recorded
C10_Witness ==
    /\ Present(eye_left)
    /\ Present(eye_right)
    /\ Len(calibration.thresholds_left) = 1
    /\ Len(calibration.thresholds_right) = 1

\* ----------------------------------------------------------------------
\* The direct calls
\* ----------------------------------------------------------------------
Called(op) == ~ IsNone(probe) /\ ~ IsNone(answer) /\ Get(probe).op = op

\* the pixels inside the 5 pixel border, and those of them that are black
\* after binarizing at t
InnerPixels(eye_frame) ==
    (IF eye_frame.height > 10 THEN eye_frame.height - 10 ELSE 0)
    * (IF eye_frame.width > 10 THEN eye_frame.width - 10 ELSE 0)

BlackPixels(eye_frame, t) ==
    LET dark == eye_frame.dark
    IN SumSeq([ i \in 1..Len(dark) |-> IF dark[i][1] <= t THEN dark[i][2] ELSE 0 ])

\* |occupancy - 0.48|, in units of 1 / (100 * InnerPixels)
Gap(eye_frame, t) ==
    Abs(100 * BlackPixels(eye_frame, t) - 48 * InnerPixels(eye_frame))

\* t is the smallest of the 19 candidates of the least gap
IsBestThreshold(eye_frame, t) ==
    LET candidates == { u \in 5..95 : u % 5 = 0 }
    IN /\ t \in candidates
       /\ \A u \in candidates :
             /\ Gap(eye_frame, t) <= Gap(eye_frame, u)
             /\ u < t => Gap(eye_frame, t) < Gap(eye_frame, u)

\* C11: find_best_threshold always returns a member of {5, 10, ..., 95}
\* whose iris occupancy is nearest to 0.48 among the 19 candidates, the
\* smallest of them when several are equally near.
C11_AlwaysReturnsBestThreshold ==
    Called("find_best_threshold") =>
        /\ Get(answer).exc = "none"
        /\ ~ IsNone(Get(answer).val)
        /\ IsBestThreshold(Get(probe).eye_frame, Get(Get(answer).val))

\* C11, on the pictures that have pixels inside their 5 pixel border: the
\* threshold returned is the smallest candidate of the least gap; on the
\* other pictures ZeroDivisionError leaves find_best_threshold.
C11_BestThresholdUnlessFlat ==
    Called("find_best_threshold") =>
        IF InnerPixels(Get(probe).eye_frame) = 0
        THEN Get(answer) = Raise("ZeroDivisionError")
        ELSE /\ Get(answer).exc = "none"
             /\ ~ IsNone(Get(answer).val)
             /\ IsBestThreshold(Get(probe).eye_frame, Get(Get(answer).val))

\* two candidates on either side of 0.48 are equally near (0.46 and 0.50)
\* and the smaller one is returned
C11_TieWitness ==
    /\ Called("find_best_threshold")
    /\ Get(probe).eye_frame.dark = << <<20, 46>>, <<52, 4>> >>
    /\ Get(answer) = Ret(20)

C11_FlatWitness ==
    /\ Called("find_best_threshold")
    /\ Get(probe).eye_frame.height = 10
    /\ Get(answer).exc = "ZeroDivisionError"

\* the contours of a picture binarized at t
ContoursAt(eye_frame, t) ==
    SelectSeq(eye_frame.contours, LAMBDA c : c.lo <= t /\ t <= c.hi)

\* contour i has the second largest area of cs: at most one contour has a
\* larger area, and at least two have an area that is no smaller
IsSecondLargest(cs, i) ==
    /\ Cardinality({ j \in 1..Len(cs) : cs[j].area > cs[i].area }) <= 1
    /\ Cardinality({ j \in 1..Len(cs) : cs[j].area >= cs[i].area }) >= 2

Undetected(pupil) == IsNone(pupil.x) /\ IsNone(pupil.y)

\* C12: the pupil is at (M10/M00, M01/M00), truncated, of the contour of
\* the second largest area; it is undetected, with both coordinates absent,
\* when there are fewer than two contours or that contour encloses no
\* area; never is only one coordinate set.
C12_CentroidOfSecondLargest ==
    Called("Pupil") =>
        LET cs == ContoursAt(Get(probe).eye_frame, Get(probe).threshold)
            pupil == Get(answer)
        IN /\ IsNone(pupil.x) <=> IsNone(pupil.y)
           /\ Len(cs) < 2 => Undetected(pupil)
           /\ Len(cs) >= 2 =>
                \E i \in 1..Len(cs) :
                    /\ IsSecondLargest(cs, i)
                    /\ IF cs[i].area = 0 THEN Undetected(pupil)
                       ELSE /\ pupil.x = Some(cs[i].m10 \div cs[i].m00)
                            /\ pupil.y = Some(cs[i].m01 \div cs[i].m00)

\* three contours, given largest first: the pupil is the middle one, its
\* centroid (30/9, 40/9) truncated to (3, 4)
C12_Witness ==
    /\ Called("Pupil")
    /\ Get(probe).eye_frame.contours =
          << Contour(0, 255, 50, 50, 760, 410), Contour(0, 255, 4, 4, 10, 7),
             Contour(0, 255, 9, 9, 30, 40) >>
    /\ Get(answer).x = Some(3)
    /\ Get(answer).y = Some(4)

\* fewer than two contours at threshold 30, and a second largest contour
\* that encloses nothing
C12_TooFewWitness ==
    /\ Called("Pupil")
    /\ Get(probe).threshold = 30
    /\ Get(probe).eye_frame.contours =
          << Contour(40, 255, 9, 9, 50, 22), Contour(0, 255, 50, 50, 760, 410) >>
    /\ Undetected(Get(answer))

C12_NoAreaWitness ==
    /\ Called("Pupil")
    /\ Get(probe).eye_frame.contours =
          << Contour(0, 255, 0, 0, 0, 0), Contour(0, 255, 4, 4, 10, 7) >>
    /\ Undetected(Get(answer))

====
